---------------------------- MODULE Spec2Model ----------------------------
(***************************************************************************)
(* Model of gen-rss.js: the blog build script that scans pages/posts for   *)
(* .mdx documents, extracts one post record per document, keeps the posts  *)
(* dated not after `now`, sorts them by descending date, and writes the    *)
(* generated listing module and the RSS feed.                              *)
(*                                                                         *)
(* Strings the code inspects character by character (paths, file names)    *)
(* are sequences of one-character strings; strings the code only copies    *)
(* (titles, descriptions) are TLA+ strings.                                *)
(***************************************************************************)
EXTENDS Integers, Sequences, FiniteSets, TLC

VARIABLES
  files,        \* regular files under pages/posts: sequences of entry names
  dirs,         \* directories under pages/posts: sequences of entry names
  content,      \* compiled document (module meta + mdx ast) of each document file
  sep,          \* path.sep of the platform the script runs on
  clock,        \* the wall clock, in milliseconds
  pc,           \* position of main()
  postPaths,    \* main: const postPaths
  now,          \* main: const now
  extracted,    \* main: the records postPaths.map(readPostMetadata) has built so far
  posts,        \* main: const posts
  listingFile,  \* pages/posts/index.gen.js
  feedFile,     \* public/static/blog-rss.xml
  scanExtension, \* the extension argument of a scanDir call
  path,         \* an arbitrary postPath handed to the urlPath expression
  url           \* the urlPath computed from `path`

vars == <<files, dirs, content, sep, clock, pc, postPaths, now, extracted,
          posts, listingFile, feedFile, scanExtension, path, url>>

(***************************************************************************)
(* Bounds of the model.                                                    *)
(***************************************************************************)
MaxEntries == 3     \* directory entries created under pages/posts (scan model)
MaxPosts == 3       \* documents under pages/posts in a run of main
MaxClock == 1       \* the clock runs from 0 to MaxClock
MaxTokens == 3      \* tokens appended to a path handed to urlPath

(***************************************************************************)
(* Strings as sequences of characters.                                     *)
(***************************************************************************)
\* UTF-16 code unit of a character, the key of JavaScript's default sort
CharCode(c) ==
  CASE c = "." -> 46
    [] c = "/" -> 47
    [] c = "B" -> 66
    [] c = "\\" -> 92
    [] c = "a" -> 97
    [] c = "b" -> 98
    [] c = "c" -> 99
    [] c = "d" -> 100
    [] c = "e" -> 101
    [] c = "g" -> 103
    [] c = "m" -> 109
    [] c = "o" -> 111
    [] c = "p" -> 112
    [] c = "s" -> 115
    [] c = "t" -> 116
    [] c = "x" -> 120

\* a < b in the order Array.prototype.sort() uses without a comparator:
\* by code units, a proper prefix first
StrLess(a, b) ==
  \E k \in 1..Len(b) :
    /\ k <= Len(a) + 1
    /\ \A i \in 1..(k - 1) : a[i] = b[i]
    /\ (k = Len(a) + 1 \/ CharCode(a[k]) < CharCode(b[k]))

\* String.prototype.endsWith
EndsWith(s, suffix) ==
  /\ Len(suffix) <= Len(s)
  /\ SubSeq(s, Len(s) - Len(suffix) + 1, Len(s)) = suffix

\* String.prototype.startsWith, the test of an anchored /^.../ pattern
StartsWith(s, prefix) ==
  /\ Len(prefix) <= Len(s)
  /\ SubSeq(s, 1, Len(prefix)) = prefix

PagesPosts(s) == <<"p", "a", "g", "e", "s">> \o <<s>> \o <<"p", "o", "s", "t", "s">>
DotMdx == <<".", "m", "d", "x">>
DotMd == <<".", "m", "d">>
Pages == <<"p", "a", "g", "e", "s">>

(***************************************************************************)
(* The file system and scanDir.                                            *)
(***************************************************************************)
\* path.join(dirPath, filename) for dirPath = pages/posts plus the entry
\* names in `comps`: the platform separator between all segments
RECURSIVE PathStr(_, _)
PathStr(comps, s) ==
  IF comps = <<>> THEN PagesPosts(s)
  ELSE PathStr(SubSeq(comps, 1, Len(comps) - 1), s) \o <<s>> \o comps[Len(comps)]

\* the names fs.readdirSync may return for the directory `dir`
EntryNames(dir) ==
  {p[Len(p)] : p \in {q \in files \cup dirs :
                        Len(q) = Len(dir) + 1 /\ SubSeq(q, 1, Len(dir)) = dir}}

\* the sequences that list every element of the set S exactly once
Listings(S) ==
  {f \in [1..Cardinality(S) -> S] : \A i, j \in 1..Cardinality(S) : f[i] = f[j] => i = j}

\* fs.readdirSync(dir): the entry names in the order the operating system
\* returns them, which `order` (a listing of all names) stands for
Readdir(dir, order) == SelectSeq(order, LAMBDA n : n \in EntryNames(dir))

\* names.sort(): insertion of each name before the first one greater than it
RECURSIVE InsertName(_, _)
InsertName(sorted, n) ==
  IF sorted = <<>> THEN <<n>>
  ELSE IF StrLess(n, Head(sorted)) THEN <<n>> \o sorted
  ELSE <<Head(sorted)>> \o InsertName(Tail(sorted), n)

RECURSIVE SortNames(_)
SortNames(names) ==
  IF names = <<>> THEN <<>>
  ELSE InsertName(SortNames(SubSeq(names, 1, Len(names) - 1)), names[Len(names)])

\* a faulty variant of SortedNames: the entries are visited in readdir order
SortedNamesUnsorted(names) == names

\* filenames after filenames.sort()
SortedNames(names) == SortNames(names)

\* filePath.endsWith(extension)
IsMatch(filePath, extension) == EndsWith(filePath, extension)

\* scan(dirPath): the result is what the call pushes onto mdxFiles
RECURSIVE Scan(_, _, _), ScanEntries(_, _, _, _)
Scan(dir, extension, order) ==
  ScanEntries(dir, SortedNames(Readdir(dir, order)), extension, order)

ScanEntries(dir, filenames, extension, order) ==
  IF filenames = <<>> THEN <<>>
  ELSE LET filePath == Append(dir, Head(filenames))
           here == IF filePath \in files /\ IsMatch(PathStr(filePath, sep), extension)
                   THEN <<PathStr(filePath, sep)>>
                   ELSE <<>>
           below == IF filePath \in dirs THEN Scan(filePath, extension, order) ELSE <<>>
       IN here \o below \o ScanEntries(dir, Tail(filenames), extension, order)

\* scanDir('pages/posts', extension)
ScanDir(extension, order) == Scan(<<>>, extension, order)


(***************************************************************************)
(* JavaScript values: dates and date strings.                              *)
(***************************************************************************)
\* a Date object holding the time value t
DateAt(t) == [type |-> "Date", valid |-> TRUE, time |-> t]

\* the Date whose time value is NaN ("Invalid Date")
InvalidDate == [type |-> "Date", valid |-> FALSE, time |-> 0]

\* the string that is the ISO-8601 form of the time value t
IsoString(t) == [type |-> "string", valid |-> TRUE, time |-> t]

\* a string no date can be parsed from
GarbageString == [type |-> "string", valid |-> FALSE, time |-> 0]

\* the value undefined
Undefined == [type |-> "undefined", valid |-> FALSE, time |-> 0]

\* the value null
Null == [type |-> "null", valid |-> FALSE, time |-> 0]

\* new Date(v) for a string or undefined v: the parsed time, or Invalid Date
NewDate(v) ==
  IF v.type = "string" /\ v.valid THEN DateAt(v.time) ELSE InvalidDate

\* a faulty variant of DefaultDate: the epoch instead of the current time
DefaultDateEpoch(c) == DateAt(0)

\* new Date() in readPostMetadata: the wall clock, which stands at c
DefaultDate(c) == DateAt(c)

\* a <= b on two Dates: the comparison of their time values, false with a NaN
DateLeq(a, b) == a.valid /\ b.valid /\ a.time <= b.time

\* a faulty variant of DateToJSON: a locale-formatted string, which no parser reads back
DateToJSONLocale(d) == IF d.valid THEN GarbageString ELSE Null

\* Date.prototype.toJSON, which JSON.stringify calls: toISOString(), or null
\* for an Invalid Date
DateToJSON(d) == IF d.valid THEN IsoString(d.time) ELSE Null

(***************************************************************************)
(* Documents: what requireMDXFileSync returns for a file, [mod, ast].      *)
(* meta is <<>> when the module exports no meta, else <<m>> with m a       *)
(* record holding the fields the meta object has.                          *)
(***************************************************************************)
MetaFields == {"title", "description", "date"}

\* the meta object with the fields given (<<>>: the field is missing)
MkMeta(title, description, date) ==
  [f \in {g \in MetaFields : \/ g = "title" /\ title # <<>>
                             \/ g = "description" /\ description # <<>>
                             \/ g = "date" /\ date # <<>>} |->
     CASE f = "title" -> title[1]
       [] f = "description" -> description[1]
       [] f = "date" -> date[1]]

Text(v) == [type |-> "text", value |-> v]
Heading(d, children) == [type |-> "heading", depth |-> d, children |-> children]
Paragraph(children) == [type |-> "paragraph", depth |-> 0, children |-> children]

\* meta && meta.<field>, as a condition, for the string fields
Truthy(meta, field) ==
  /\ meta # <<>>
  /\ field \in DOMAIN meta[1]
  /\ meta[1][field] # ""

\* a faulty variant of IsTitleHeading: a heading of any depth
IsTitleHeadingAnyDepth(x) == x.type = "heading"

\* the filter of the title fallback: x.type == 'heading' && x.depth == 1
IsTitleHeading(x) == x.type = "heading" /\ x.depth = 1

\* the filter of the description fallback: x.type == 'paragraph'
IsParagraph(x) == x.type = "paragraph"

\* a faulty variant of FirstChildValue: a missing block gives an empty string
FirstChildValueSilent(blocks) ==
  IF blocks = <<>> \/ blocks[1].children = <<>>
  THEN [threw |-> FALSE, value |-> ""]
  ELSE [threw |-> FALSE, value |-> blocks[1].children[1].value]

\* blocks[0].children[0].value: a TypeError when a property of undefined is read
FirstChildValue(blocks) ==
  IF blocks = <<>> \/ blocks[1].children = <<>>
  THEN [threw |-> TRUE, value |-> ""]
  ELSE [threw |-> FALSE, value |-> blocks[1].children[1].value]

\* const title
TitleOf(doc) ==
  IF Truthy(doc.meta, "title")
  THEN [threw |-> FALSE, value |-> doc.meta[1].title]
  ELSE FirstChildValue(SelectSeq(doc.ast, IsTitleHeading))

\* const description
DescriptionOf(doc) ==
  IF Truthy(doc.meta, "description")
  THEN [threw |-> FALSE, value |-> doc.meta[1].description]
  ELSE FirstChildValue(SelectSeq(doc.ast, IsParagraph))

\* meta.date: undefined when the meta object has no date
MetaDate(meta) == IF "date" \in DOMAIN meta THEN meta.date ELSE Undefined

\* date: (meta && new Date(meta.date)) || new Date(); a Date object is
\* truthy whatever its time value
DateOf(doc, c) ==
  IF doc.meta # <<>> THEN NewDate(MetaDate(doc.meta[1])) ELSE DefaultDate(c)

(***************************************************************************)
(* urlPath.                                                                *)
(***************************************************************************)
\* a faulty variant of ReplaceBackslash: every backslash is replaced (the g flag)
ReplaceBackslashAll(s) == [i \in 1..Len(s) |-> IF s[i] = "\\" THEN "/" ELSE s[i]]

\* s.replace(/\\/, '/'): the first match only
ReplaceBackslash(s) ==
  IF \E i \in 1..Len(s) : s[i] = "\\"
  THEN LET first == CHOOSE i \in 1..Len(s) :
                      s[i] = "\\" /\ \A j \in 1..(i - 1) : s[j] # "\\"
       IN [s EXCEPT ![first] = "/"]
  ELSE s

\* s.replace(/^pages/, '')
StripPages(s) ==
  IF StartsWith(s, Pages) THEN SubSeq(s, Len(Pages) + 1, Len(s)) ELSE s

\* s.replace(/\.mdx?$/, '')
StripExtension(s) ==
  IF EndsWith(s, DotMdx) THEN SubSeq(s, 1, Len(s) - Len(DotMdx))
  ELSE IF EndsWith(s, DotMd) THEN SubSeq(s, 1, Len(s) - Len(DotMd))
  ELSE s

\* urlPath: postPath.replace(/\\/, '/').replace(/^pages/, '').replace(/\.mdx?$/, '')
UrlPath(postPath) == StripExtension(StripPages(ReplaceBackslash(postPath)))

(***************************************************************************)
(* readPostMetadata.                                                       *)
(***************************************************************************)
NoPost == [filePath |-> <<>>, urlPath |-> <<>>, title |-> "",
           date |-> InvalidDate, description |-> ""]

\* readPostMetadata(postPath) for the compiled document doc, the wall clock
\* standing at c: the record returned, unless an exception is thrown
ReadPostMetadata(postPath, doc, c) ==
  LET title == TitleOf(doc)
      description == DescriptionOf(doc)
  IN IF title.threw \/ description.threw
     THEN [threw |-> TRUE, post |-> NoPost]
     ELSE [threw |-> FALSE,
           post |-> [filePath |-> postPath,
                     urlPath |-> UrlPath(postPath),
                     title |-> title.value,
                     date |-> DateOf(doc, c),
                     description |-> description.value]]


(***************************************************************************)
(* main: filter, sort, serialise.                                          *)
(***************************************************************************)
\* a faulty variant of IsPublished: a post dated exactly now is left out
IsPublishedStrict(post, n) == post.date.valid /\ n.valid /\ post.date.time < n.time

\* the filter of main: post.date <= now
IsPublished(post, n) == DateLeq(post.date, n)

\* .filter(function(post){return post.date <= now})
FilterPosts(ps, n) == SelectSeq(ps, LAMBDA post : IsPublished(post, n))

\* a faulty variant of Compare: ascending by date
CompareAscending(a, b) ==
  IF a.date.valid /\ b.date.valid THEN a.date.time - b.date.time ELSE 0

\* the comparator of main: b.date - a.date; a NaN result counts as 0
Compare(a, b) ==
  IF a.date.valid /\ b.date.valid THEN b.date.time - a.date.time ELSE 0

\* Array.prototype.sort is stable: an element goes before the first sorted
\* element that the comparator puts after it
RECURSIVE InsertPost(_, _)
InsertPost(sorted, x) ==
  IF sorted = <<>> THEN <<x>>
  ELSE IF Compare(Head(sorted), x) > 0 THEN <<x>> \o sorted
  ELSE <<Head(sorted)>> \o InsertPost(Tail(sorted), x)

\* posts.sort(function(a, b){return b.date - a.date})
RECURSIVE SortPosts(_)
SortPosts(ps) ==
  IF ps = <<>> THEN <<>>
  ELSE InsertPost(SortPosts(SubSeq(ps, 1, Len(ps) - 1)), ps[Len(ps)])

\* what JSON.stringify writes for one record: its own properties, the date
\* through Date.prototype.toJSON
PostToJSON(post) ==
  [filePath |-> post.filePath, urlPath |-> post.urlPath, title |-> post.title,
   date |-> DateToJSON(post.date), description |-> post.description]

\* JSON.stringify(posts, null, 2)
JsonStringify(ps) == [i \in 1..Len(ps) |-> PostToJSON(ps[i])]

\* the text written to exportPath
ListingText(ps) ==
  [comment |-> "// automatically generated by build_post_index.js",
   exported |-> JsonStringify(ps)]

\* Rss.draw(posts): one item per post, in the order of posts
RssDraw(ps) ==
  [i \in 1..Len(ps) |->
     [title |-> ps[i].title, link |-> ps[i].urlPath,
      pubDate |-> ps[i].date.time, description |-> ps[i].description]]

NotWritten == [written |-> FALSE, text |-> <<>>]

(***************************************************************************)
(* Inputs.                                                                 *)
(***************************************************************************)
Letters == <<"a", "b", "c", "d", "e">>

\* the i-th document name: a.mdx, b.mdx, ...
PostName(i) == <<Letters[i]>> \o DotMdx

\* entry names of the scan model: a directory-like name, two matching names
\* (an upper-case one, which sorts first), one with another extension
Names == {<<"a">>, <<"a">> \o DotMdx, <<"B">> \o DotMdx, <<"b">> \o DotMd}

Separators == {"/", "\\"}

Times == 0..(MaxClock + 1)

StandardAst == <<Heading(1, <<Text("H")>>), Paragraph(<<Text("P")>>)>>

Asts ==
  { <<>>,
    StandardAst,
    <<Heading(2, <<Text("S")>>), Paragraph(<<Text("P")>>)>>,
    <<Heading(1, <<Text("H")>>)>>,
    <<Heading(1, <<>>), Paragraph(<<Text("P")>>)>>,
    <<Paragraph(<<Text("P"), Text("P2")>>), Heading(2, <<Text("S")>>),
      Heading(1, <<Text("H"), Text("H2")>>), Paragraph(<<Text("Q")>>),
      Heading(1, <<Text("I")>>)>> }

DateValues == {<<>>, <<GarbageString>>} \cup {<<IsoString(t)>> : t \in Times}

Metas ==
  {<<>>} \cup
  {<<MkMeta(t, d, dt)>> : t \in {<<>>, <<"">>, <<"T">>},
                          d \in {<<>>, <<"">>, <<"D">>},
                          dt \in DateValues}

\* every document of the model
Docs == [meta : Metas, ast : Asts]

\* the documents of the runs with several posts
PipelineDocs ==
  {[meta |-> <<MkMeta(<<"T">>, <<"D">>, dt)>>, ast |-> StandardAst] :
      dt \in DateValues \ {<<>>}}
  \cup {[meta |-> <<>>, ast |-> StandardAst],
        [meta |-> <<>>, ast |-> <<Paragraph(<<Text("P")>>)>>]}

\* the corpora main runs on: one document of any kind, or up to MaxPosts
\* pipeline documents
Corpora ==
  {[f \in {<<PostName(1)>>} |-> d] : d \in Docs}
  \cup UNION {[{<<PostName(i)>> : i \in S} -> PipelineDocs] : S \in SUBSET (1..MaxPosts)}

Tokens == {Pages, DotMdx, DotMd, <<"\\">>, <<"/">>, <<"a">>, <<".">>}

SeedPaths ==
  {<<>>, PagesPosts("/") \o <<"/", "a", "/", "b">>,
   PagesPosts("\\") \o <<"\\", "a">>}


\* the strings made of at most n tokens
RECURSIVE TokenStrings(_)
TokenStrings(n) ==
  IF n = 0 THEN {<<>>}
  ELSE LET shorter == TokenStrings(n - 1)
       IN shorter \cup {s \o t : s \in shorter, t \in Tokens}

PathInputs == {seed \o s : seed \in SeedPaths, s \in TokenStrings(MaxTokens)}

(***************************************************************************)
(* The run of main.                                                        *)
(***************************************************************************)
\* the names a directory listing can hold
AllNames == {p[Len(p)] : p \in files \cup dirs}

\* requireMDXFileSync(postPath): the compiled document of the file at postPath
ReadFile(postPath) == content[CHOOSE f \in DOMAIN content : PathStr(f, sep) = postPath]

Init ==
  /\ content \in Corpora
  /\ files = DOMAIN content
  /\ dirs = {}
  /\ sep \in Separators
  /\ clock = 0
  /\ pc = "start"
  /\ postPaths = <<>>
  /\ now = Undefined
  /\ extracted = <<>>
  /\ posts = <<>>
  /\ listingFile = NotWritten
  /\ feedFile = NotWritten
  /\ scanExtension = DotMdx
  /\ path = <<>>
  /\ url = <<>>

\* the wall clock advances while main runs
Tick ==
  /\ pc \in {"now", "extract"}
  /\ clock < MaxClock
  /\ clock' = clock + 1
  /\ UNCHANGED <<files, dirs, content, sep, pc, postPaths, now, extracted, posts,
                 listingFile, feedFile, scanExtension, path, url>>

\* const postPaths = scanDir('pages/posts', '.mdx')
ScanPosts ==
  /\ pc = "start"
  /\ \E order \in Listings(AllNames) : postPaths' = ScanDir(DotMdx, order)
  /\ pc' = "now"
  /\ UNCHANGED <<files, dirs, content, sep, clock, now, extracted, posts,
                 listingFile, feedFile, scanExtension, path, url>>

\* const now = new Date()
ReadNow ==
  /\ pc = "now"
  /\ now' = DateAt(clock)
  /\ pc' = "extract"
  /\ UNCHANGED <<files, dirs, content, sep, clock, postPaths, extracted, posts,
                 listingFile, feedFile, scanExtension, path, url>>

\* one call of readPostMetadata by postPaths.map; an exception ends the run
Extract ==
  /\ pc = "extract"
  /\ Len(extracted) < Len(postPaths)
  /\ LET postPath == postPaths[Len(extracted) + 1]
         r == ReadPostMetadata(postPath, ReadFile(postPath), clock)
     IN IF r.threw
        THEN pc' = "abortedExtract" /\ UNCHANGED extracted
        ELSE extracted' = Append(extracted, r.post) /\ pc' = pc
  /\ UNCHANGED <<files, dirs, content, sep, clock, postPaths, now, posts,
                 listingFile, feedFile, scanExtension, path, url>>

\* the map is complete: .filter(...) and posts.sort(...)
Assemble ==
  /\ pc = "extract"
  /\ Len(extracted) = Len(postPaths)
  /\ posts' = SortPosts(FilterPosts(extracted, now))
  /\ pc' = "writeListing"
  /\ UNCHANGED <<files, dirs, content, sep, clock, postPaths, now, extracted,
                 listingFile, feedFile, scanExtension, path, url>>

\* fs.writeFileSync(exportPath, ...) returns
WriteListingOk ==
  /\ pc = "writeListing"
  /\ listingFile' = [written |-> TRUE, text |-> ListingText(posts)]
  /\ pc' = "writeFeed"
  /\ UNCHANGED <<files, dirs, content, sep, clock, postPaths, now, extracted, posts,
                 feedFile, scanExtension, path, url>>

\* a faulty variant of WriteListingFail: the error is swallowed and the run goes on
WriteListingFailSwallowed ==
  /\ pc = "writeListing"
  /\ pc' = "writeFeed"
  /\ UNCHANGED <<files, dirs, content, sep, clock, postPaths, now, extracted, posts,
                 listingFile, feedFile, scanExtension, path, url>>

\* fs.writeFileSync(exportPath, ...) throws: the exception ends the run
WriteListingFail ==
  /\ pc = "writeListing"
  /\ pc' = "abortedListing"
  /\ UNCHANGED <<files, dirs, content, sep, clock, postPaths, now, extracted, posts,
                 listingFile, feedFile, scanExtension, path, url>>

\* Rss.draw(posts) and fs.writeFileSync(rssPath, rssXML) return
WriteFeedOk ==
  /\ pc = "writeFeed"
  /\ feedFile' = [written |-> TRUE, text |-> RssDraw(posts)]
  /\ pc' = "done"
  /\ UNCHANGED <<files, dirs, content, sep, clock, postPaths, now, extracted, posts,
                 listingFile, scanExtension, path, url>>

\* Rss.draw(posts) or fs.writeFileSync(rssPath, rssXML) throws
WriteFeedFail ==
  /\ pc = "writeFeed"
  /\ pc' = "abortedFeed"
  /\ UNCHANGED <<files, dirs, content, sep, clock, postPaths, now, extracted, posts,
                 listingFile, feedFile, scanExtension, path, url>>

Next ==
  \/ Tick
  \/ ScanPosts
  \/ ReadNow
  \/ Extract
  \/ Assemble
  \/ WriteListingOk
  \/ WriteListingFail
  \/ WriteFeedOk
  \/ WriteFeedFail

Spec == Init /\ [][Next]_vars

(***************************************************************************)
(* scanDir on arbitrary trees: files and directories are created under     *)
(* pages/posts, then scanDir is called.                                    *)
(***************************************************************************)
InitScan ==
  /\ files = {}
  /\ dirs = {}
  /\ content = <<>>
  /\ sep \in Separators
  /\ clock = 0
  /\ pc = "start"
  /\ postPaths = <<>>
  /\ now = Undefined
  /\ extracted = <<>>
  /\ posts = <<>>
  /\ listingFile = NotWritten
  /\ feedFile = NotWritten
  /\ scanExtension \in {DotMdx, DotMd}
  /\ path = <<>>
  /\ url = <<>>

\* a regular file appears in pages/posts or in a directory below it
CreateFile ==
  /\ pc = "start"
  /\ Cardinality(files \cup dirs) < MaxEntries
  /\ \E d \in dirs \cup {<<>>}, n \in Names :
       /\ Append(d, n) \notin files \cup dirs
       /\ files' = files \cup {Append(d, n)}
  /\ UNCHANGED <<dirs, content, sep, clock, pc, postPaths, now, extracted, posts,
                 listingFile, feedFile, scanExtension, path, url>>

\* a directory appears in pages/posts or in a directory below it
Mkdir ==
  /\ pc = "start"
  /\ Cardinality(files \cup dirs) < MaxEntries
  /\ \E d \in dirs \cup {<<>>}, n \in Names :
       /\ Append(d, n) \notin files \cup dirs
       /\ dirs' = dirs \cup {Append(d, n)}
  /\ UNCHANGED <<files, content, sep, clock, pc, postPaths, now, extracted, posts,
                 listingFile, feedFile, scanExtension, path, url>>

\* scanDir('pages/posts', extension)
ScanTree ==
  /\ pc = "start"
  /\ \E order \in Listings(AllNames) : postPaths' = ScanDir(scanExtension, order)
  /\ pc' = "scanned"
  /\ UNCHANGED <<files, dirs, content, sep, clock, now, extracted, posts,
                 listingFile, feedFile, scanExtension, path, url>>

NextScan == CreateFile \/ Mkdir \/ ScanTree

SpecScan == InitScan /\ [][NextScan]_vars

(***************************************************************************)
(* urlPath on arbitrary paths.                                             *)
(***************************************************************************)
InitUrl ==
  /\ files = {}
  /\ dirs = {}
  /\ content = <<>>
  /\ sep = "/"
  /\ clock = 0
  /\ pc = "start"
  /\ postPaths = <<>>
  /\ now = Undefined
  /\ extracted = <<>>
  /\ posts = <<>>
  /\ listingFile = NotWritten
  /\ feedFile = NotWritten
  /\ scanExtension = DotMdx
  /\ path \in PathInputs
  /\ url = <<>>

\* the urlPath expression of readPostMetadata, applied to path
ComputeUrl ==
  /\ pc = "start"
  /\ url' = <<UrlPath(path)>>
  /\ pc' = "computed"
  /\ UNCHANGED <<files, dirs, content, sep, clock, postPaths, now, extracted, posts,
                 listingFile, feedFile, scanExtension, path>>

NextUrl == ComputeUrl

SpecUrl == InitUrl /\ [][NextUrl]_vars


(***************************************************************************)
(* Properties.                                                             *)
(***************************************************************************)
\* main has built posts
Assembled == pc \in {"writeListing", "writeFeed", "done", "abortedListing", "abortedFeed"}

\* the run of main has ended
Ended == pc \in {"done", "abortedExtract", "abortedListing", "abortedFeed"}

\* the document the i-th record was extracted from
DocOf(i) == ReadFile(postPaths[i])

\* the position of a published post in the scan
ScanIndex(post) == CHOOSE i \in 1..Len(postPaths) : postPaths[i] = post.filePath

\* how often the record r occurs in posts
Occurrences(r) == Cardinality({j \in 1..Len(posts) : posts[j] = r})

\* the record was built from a document without a meta object, so that its
\* date is the wall clock read at its extraction
Defaulted(i) == DocOf(i).meta = <<>>

\* C1: once posts is built, it holds exactly the extracted records whose date
\* compares <= now, each once: a record dated now is in, a record dated after
\* now or with an Invalid Date is out
C1_PublishedExactlyNotAfterNow ==
  Assembled =>
    /\ Len(extracted) = Len(postPaths)
    /\ \A i \in 1..Len(extracted) :
         Occurrences(extracted[i]) =
           IF extracted[i].date.valid /\ extracted[i].date.time <= now.time THEN 1 ELSE 0
    /\ \A j \in 1..Len(posts) : \E i \in 1..Len(extracted) : extracted[i] = posts[j]

\* C1 witness: a record dated now is published while a record dated after
\* now and a record with an Invalid Date are left out
C1_Witness ==
  /\ Assembled
  /\ \E i, j, k \in 1..Len(extracted) :
       /\ extracted[i].date = now /\ Occurrences(extracted[i]) = 1
       /\ extracted[j].date.valid /\ extracted[j].date.time > now.time
       /\ Occurrences(extracted[j]) = 0
       /\ ~extracted[k].date.valid /\ Occurrences(extracted[k]) = 0

\* C2: posts is ordered by non-increasing date, and two posts of equal date
\* stand in the order of the scan
C2_SortedDescendingStable ==
  Assembled =>
    \A i, j \in 1..Len(posts) :
      i < j =>
        /\ posts[i].date.time >= posts[j].date.time
        /\ posts[i].date.time = posts[j].date.time
             => ScanIndex(posts[i]) < ScanIndex(posts[j])

\* C2 witness: three published posts, two of them of equal date
C2_Witness ==
  /\ Assembled
  /\ Len(posts) = 3
  /\ \E i, j, k \in 1..3 :
       /\ i # j
       /\ posts[i].date = posts[j].date
       /\ posts[k].date # posts[i].date

\* the value of the first child of the first block of the ast that `kind` accepts
FallbackIs(ast, kind(_), v) ==
  \E k \in 1..Len(ast) :
    /\ kind(ast[k])
    /\ \A j \in 1..(k - 1) : ~kind(ast[j])
    /\ ast[k].children # <<>>
    /\ ast[k].children[1].value = v

IsHeadingOfDepth1(x) == x.type = "heading" /\ x.depth = 1

IsParagraphBlock(x) == x.type = "paragraph"

\* the record's field is the meta value when the meta object exists and its
\* field is a non-empty string, and the structural fallback otherwise
FieldResolved(doc, field, kind(_), v) ==
  IF doc.meta # <<>> /\ field \in DOMAIN doc.meta[1] /\ doc.meta[1][field] # ""
  THEN v = doc.meta[1][field]
  ELSE FallbackIs(doc.ast, kind, v)

\* C3 as stated: a title or description field of the meta object is the
\* record's field whatever its value, the empty string included
C3_MetaFieldAlwaysWins ==
  \A i \in 1..Len(extracted) :
    /\ DocOf(i).meta # <<>> /\ "title" \in DOMAIN DocOf(i).meta[1]
         => extracted[i].title = DocOf(i).meta[1].title
    /\ DocOf(i).meta # <<>> /\ "description" \in DOMAIN DocOf(i).meta[1]
         => extracted[i].description = DocOf(i).meta[1].description

\* C3 amended: the meta value is the record's field when the meta object has
\* a non-empty (truthy) field; when meta is absent, lacks the field or holds
\* an empty string, the field is the value of the first child of the first
\* depth-1 heading (title) or of the first paragraph (description)
C3_TruthyMetaFieldWins ==
  \A i \in 1..Len(extracted) :
    /\ FieldResolved(DocOf(i), "title", IsHeadingOfDepth1, extracted[i].title)
    /\ FieldResolved(DocOf(i), "description", IsParagraphBlock, extracted[i].description)

\* C3 witness: a record whose title is the heading's because the meta title
\* is the empty string, and whose description is the meta description
C3_Witness ==
  \E i \in 1..Len(extracted) :
    /\ DocOf(i).meta # <<>>
    /\ DOMAIN DocOf(i).meta[1] = {"title", "description"}
    /\ DocOf(i).meta[1].title = ""
    /\ DocOf(i).meta[1].description = "D"
    /\ Len(DocOf(i).ast) > 2
    /\ extracted[i].title = "H"
    /\ extracted[i].description = "D"

\* a document without a meta object and without a depth-1 heading or without
\* a paragraph
LacksStructure(doc) ==
  /\ doc.meta = <<>>
  /\ \/ ~\E k \in 1..Len(doc.ast) : IsHeadingOfDepth1(doc.ast[k])
     \/ ~\E k \in 1..Len(doc.ast) : IsParagraphBlock(doc.ast[k])

\* C4: no record is ever built from a document without meta that lacks a
\* depth-1 heading or a paragraph, and a run whose scan holds such a document
\* never gets past the extraction and writes neither file
C4_MissingStructureAborts ==
  /\ \A i \in 1..Len(extracted) : ~LacksStructure(DocOf(i))
  /\ (\E i \in 1..Len(postPaths) : LacksStructure(DocOf(i)))
       => /\ pc \in {"now", "extract", "abortedExtract"}
          /\ Len(extracted) < Len(postPaths)
          /\ ~listingFile.written
          /\ ~feedFile.written

\* C4 witness: the run has aborted on such a document after it had built a
\* record, and no file is written
C4_Witness ==
  /\ pc = "abortedExtract"
  /\ Len(extracted) >= 1
  /\ LacksStructure(DocOf(Len(extracted) + 1))
  /\ ~listingFile.written
  /\ ~feedFile.written

\* C5 as stated: a record's date is the date of the meta object's date field
\* when there is one, and else the wall clock of its extraction, which lies
\* between the read of now and the current clock
C5_DateFromFieldOrClock ==
  \A i \in 1..Len(extracted) :
    IF DocOf(i).meta # <<>> /\ "date" \in DOMAIN DocOf(i).meta[1]
    THEN extracted[i].date = NewDate(DocOf(i).meta[1].date)
    ELSE /\ extracted[i].date.valid
         /\ now.time <= extracted[i].date.time
         /\ extracted[i].date.time <= clock

\* C6 as stated: a run ends with both files written or with neither
C6_NoPartialOutput == Ended => (listingFile.written <=> feedFile.written)

\* C6 amended: the feed is written only after the listing; a run ends with
\* both written (done), with neither (an exception in the extraction or in
\* the listing write), or with the listing alone (an exception in the feed
\* step)
C6_FeedOnlyAfterListing ==
  /\ feedFile.written => listingFile.written
  /\ pc = "done" => listingFile.written /\ feedFile.written
  /\ pc \in {"abortedExtract", "abortedListing"} => ~listingFile.written /\ ~feedFile.written
  /\ pc = "abortedFeed" => listingFile.written /\ ~feedFile.written

\* C6 witness: the run has ended in the feed step with the listing written
C6_Witness == pc = "abortedFeed" /\ listingFile.written /\ ~feedFile.written /\ posts # <<>>

\* the file f comes before the file g in a depth-first walk that visits the
\* entries of every directory in sorted name order: where the two paths
\* part, f has the smaller entry name
PathBefore(f, g) ==
  \E k \in 1..Len(f) :
    /\ k <= Len(g)
    /\ \A m \in 1..(k - 1) : f[m] = g[m]
    /\ StrLess(f[k], g[k])

\* C7: scanDir returns the paths of the regular files under the root that
\* end with the extension, each once, in depth-first order with the entries
\* of every directory in sorted name order, whatever order readdir gave
C7_ScanDirSortedDepthFirst ==
  pc = "scanned" =>
    LET matching == {f \in files : EndsWith(PathStr(f, sep), scanExtension)}
    IN /\ Len(postPaths) = Cardinality(matching)
       /\ {postPaths[i] : i \in 1..Len(postPaths)} = {PathStr(f, sep) : f \in matching}
       /\ \A i, j \in 1..Len(postPaths) :
            i < j => \E f, g \in matching :
                       /\ PathStr(f, sep) = postPaths[i]
                       /\ PathStr(g, sep) = postPaths[j]
                       /\ PathBefore(f, g)

\* C7 witness: a scan that returned a file of a subdirectory before a file
\* of the root, the directory's name sorting first
C7_Witness ==
  /\ pc = "scanned"
  /\ Len(postPaths) = 2
  /\ \E f, g \in files :
       /\ Len(f) = 2 /\ postPaths[1] = PathStr(f, sep)
       /\ Len(g) = 1 /\ postPaths[2] = PathStr(g, sep)
       /\ SubSeq(f, 1, 1) \in dirs

ExamplePath == PagesPosts("/") \o <<"/", "a", "/", "b">> \o DotMdx

\* C8: urlPath is the path with its first backslash alone replaced by '/',
\* less a leading 'pages', less a trailing '.md' or '.mdx';
\* pages/posts/a/b.mdx gives /posts/a/b
C8_UrlPathTransform ==
  url # <<>> =>
    LET q == [i \in 1..Len(path) |->
                IF path[i] = "\\" /\ \A j \in 1..(i - 1) : path[j] # "\\"
                THEN "/" ELSE path[i]]
        lead == IF StartsWith(q, Pages) THEN Pages ELSE <<>>
    IN /\ \E trail \in {DotMdx, DotMd, <<>>} :
            /\ q = lead \o url[1] \o trail
            /\ trail = <<>> => ~EndsWith(url[1], DotMdx) /\ ~EndsWith(url[1], DotMd)
       /\ path = ExamplePath => url[1] = <<"/", "p", "o", "s", "t", "s", "/", "a", "/", "b">>

\* C8 witness: the urlPath of pages/posts/a/b.mdx has been computed
C8_Witness == path = ExamplePath /\ url = <<<<"/", "p", "o", "s", "t", "s", "/", "a", "/", "b">>>>

\* the array literal of the listing read back as data
ParseListing(text) == text.exported

C10_NowReadBeforeExtraction ==
  /\ pc \in {"start", "now"} => extracted = <<>>
  /\ extracted # <<>> => now.type = "Date"
  /\ \A i \in 1..Len(extracted) :
       Defaulted(i) =>
         /\ extracted[i].date.valid
         /\ extracted[i].date.time >= now.time
         /\ Assembled /\ Occurrences(extracted[i]) > 0 => extracted[i].date = now

\* C10 witness: of two records dated by the wall clock, the one extracted
\* before the clock advanced is published and the later one is not
C10_Witness ==
  /\ Assembled
  /\ \E i, j \in 1..Len(extracted) :
       /\ Defaulted(i) /\ Occurrences(extracted[i]) = 1
       /\ Defaulted(j) /\ Occurrences(extracted[j]) = 0
       /\ extracted[j].date.time > now.time

=============================================================================
